---- MODULE Spec2Model ----
(***************************************************************************)
(* Model of the SketchToFace single-page UI: the SketchToFaceInterface     *)
(* component of src/src/component/home.tsx (React state, the image         *)
(* preprocessor processImage, the submission controller handleSubmit and   *)
(* the overlay flags).  One action per event handler or asynchronous       *)
(* callback; a handler runs to completion (single UI thread), so each      *)
(* action is the handler together with the render and effects it causes.   *)
(* Strings the code inspects or builds character by character              *)
(* (description, gender, prompt) are sequences of one-character strings.   *)
(***************************************************************************)
EXTENDS Integers, Sequences, FiniteSets, TLC

\* ------------------------------------------------------------------ bounds
\* Number of fetch calls a behaviour may issue.
MaxRequests == 2
\* Number of processImage invocations that may be pending at once.
MaxLoads == 1
\* Simulated progress up to which Spec follows the 200 ms ticks of the
\* progress timer (the ticks themselves are unbounded in number).
MaxTickProgress == 1
\* Largest image dimension drawn for the preprocessor's inputs.
MaxDim == 10000
\* Number of un-revoked object URLs of the sketch up to which they are
\* counted; the count stays there once it is reached (MaxSketchUrls stands
\* for "MaxSketchUrls or more").
MaxSketchUrls == 2

\* --------------------------------------------------------- program constants
MAX_WIDTH == 800
MAX_HEIGHT == 800
PROGRESS_CEILING == 85
RANDOM_SCALE == 3

\* ------------------------------------------------------------------ strings
Male == <<"m", "a", "l", "e">>
Female == <<"f", "e", "m", "a", "l", "e">>
NoGender == <<>>
Genders == {Male, Female}

ASmilingMan == <<"a", " ", "s", "m", "i", "l", "i", "n", "g", " ", "m", "a", "n">>
Descriptions == {<<>>, <<" ">>, ASmilingMan}

IsWhiteSpace(c) == c \in {" ", "\t", "\n", "\r"}

RECURSIVE TrimStart(_)
TrimStart(s) ==
  IF Len(s) > 0 /\ IsWhiteSpace(Head(s)) THEN TrimStart(Tail(s)) ELSE s

RECURSIVE TrimEnd(_)
TrimEnd(s) ==
  IF Len(s) > 0 /\ IsWhiteSpace(s[Len(s)])
    THEN TrimEnd(SubSeq(s, 1, Len(s) - 1))
    ELSE s

\* String.prototype.trim
Trim(s) == TrimEnd(TrimStart(s))

\* faulty variant: the gender is appended without its parentheses
CombinedPromptNoParens(d, g) == d \o <<" ">> \o g

\* `${description} (${selectedGender})`
CombinedPrompt(d, g) == d \o <<" ", "(">> \o g \o <<")">>

\* -------------------------------------------------------------------- files
\* A File: name, MIME type, the pixel size of the image it encodes, and
\* whether it is the output of canvas.toBlob (re-encoded) or the user's file.
File(n, t, w, h, r) == [name |-> n, type |-> t, w |-> w, h |-> h, reencoded |-> r]
NoFile == File("", "", 0, 0, FALSE)

SketchA == File("a.jpg", "image/jpeg", 1600, 1200, FALSE)
NotAnImage == File("c.pdf", "application/pdf", 0, 0, FALSE)
SketchB == File("b.png", "image/png", 640, 480, FALSE)
\* the files the user picks or drops
UserFiles == {SketchA, NotAnImage}

\* faulty variant: every MIME type is accepted
AnyTypeAccepted(t) == TRUE

\* file.type.match(/^image\/(jpg|jpeg|png|gif)$/)
ValidImageType(t) == t \in {"image/jpg", "image/jpeg", "image/png", "image/gif"}

\* Math.round of the non-negative quotient a / b (round half up)
RoundDiv(a, b) == (2 * a + b) \div (2 * b)

\* faulty variant: the width step without its guard (small images are upscaled)
WidthStepAlways(d) == [w |-> MAX_WIDTH, h |-> RoundDiv(d.h * MAX_WIDTH, d.w)]

\* processImage, step 1: cap the width
WidthStep(d) ==
  IF d.w > MAX_WIDTH
    THEN [w |-> MAX_WIDTH, h |-> RoundDiv(d.h * MAX_WIDTH, d.w)]
    ELSE d

\* faulty variant: no height step
HeightStepSkipped(d) == d

\* faulty variant: the height step caps the height and keeps the width
HeightStepWidthKept(d) ==
  IF d.h > MAX_HEIGHT THEN [w |-> d.w, h |-> MAX_HEIGHT] ELSE d

\* processImage, step 2: cap the height
HeightStep(d) ==
  IF d.h > MAX_HEIGHT
    THEN [w |-> RoundDiv(d.w * MAX_HEIGHT, d.h), h |-> MAX_HEIGHT]
    ELSE d

\* the canvas size processImage computes for a decoded w x h image
CanvasSize(w, h) == HeightStep(WidthStep([w |-> w, h |-> h]))

\* ------------------------------------------------------------ notifications
Note(t, m) == [type |-> t, message |-> m]
NoNotification == Note("none", "")

MsgDropInvalid == "Please drop a valid image file (JPG, PNG or GIF)"
MsgSelectInvalid == "Please select a valid image file (JPG, PNG or GIF)"
MsgOptimized == "Image uploaded and optimized successfully!"
MsgLoadError == "Error loading image. Please try another file."
MsgNoSketch == "Please upload a sketch first"
MsgNoDescription == "Please provide a description"
MsgNoGender == "Please select a gender"
MsgGenerated == "Face was successfully generated from your sketch!"
MsgFailed == "Failed to process the sketch. Please try again."
MsgResult == "Face successfully generated!"

\* ---------------------------------------------------------------- responses
\* What the fetch promise resolves with: the status line of a Response. The
\* body arrives later, when the handler reads it (response.blob() for a 2xx,
\* response.json() otherwise).
Response(ok, st, txt) == [ok |-> ok, status |-> st, statusText |-> txt]
NoResponse == Response(FALSE, 0, "")

Ok200 == Response(TRUE, 200, "OK")
ErrorResponses ==
  { Response(FALSE, 500, "Internal Server Error"),
    Response(FALSE, 502, "Bad Gateway") }

\* The body of an error response: JSON or not, and the JSON's detail and
\* message fields ("" stands for an absent or falsy field).
Body(js, det, msg) == [json |-> js, detail |-> det, message |-> msg]

DetailText == "sqlalchemy.exc.OperationalError: db at 10.0.0.5 refused"
MessageText == "CUDA out of memory on worker 3"

ErrorBodies ==
  { Body(TRUE, DetailText, MessageText),
    Body(TRUE, "", MessageText),
    Body(TRUE, "", ""),
    Body(FALSE, "", "") }

NetworkErrorText == "TypeError: Failed to fetch"
BodyErrorText == "TypeError: Failed to read the response body"

\* --------------------------------------------------------------------- state
VARIABLES
  selectedFile,        \* useState<File | null>
  description,         \* useState('')
  selectedGender,      \* useState('')
  isLoading,           \* useState(false): the busy flag
  loadingProgress,     \* useState(0)
  errorMessage,        \* useState('')
  result,              \* useState<{imageUrl, message} | null>
  notification,        \* useState<{type, message} | null>
  isModalOpen,         \* useState(false)
  isImageViewerOpen,   \* useState(false)
  notifTimers,         \* pending 5 s expiry timeouts of the notification effect
  loads,               \* processImage invocations waiting for a callback
  decodeUrls,          \* un-revoked object URLs created by processImage
  subs,                \* handleSubmit invocations suspended at an await, each
                       \* with the request or the response it is waiting on
  progressTimers,      \* live setInterval progress timers
  busyTimers,          \* pending 500 ms timeouts that lower the busy flag
  netCount,            \* number of fetch calls issued
  urlsCreated,         \* number of object URLs created for response blobs
  liveResultUrls,      \* un-revoked object URLs of response blobs
  sketchUrls,          \* un-revoked object URLs created in render for the sketch
  bodyOverflow,        \* document.body.style.overflow
  consoleError         \* what the latest step wrote with console.error, if anything

vars ==
  <<selectedFile, description, selectedGender, isLoading, loadingProgress,
    errorMessage, result, notification, isModalOpen, isImageViewerOpen,
    notifTimers, loads, decodeUrls, subs, progressTimers, busyTimers,
    netCount, urlsCreated, liveResultUrls, sketchUrls, bodyOverflow,
    consoleError>>

inputVars == <<selectedFile, description, selectedGender>>
overlayVars == <<isModalOpen, isImageViewerOpen>>
loadVars == <<loads, decodeUrls>>
submitVars == <<isLoading, loadingProgress, subs, progressTimers, busyTimers>>
netVars == <<netCount>>
resultVars == <<result, urlsCreated, liveResultUrls>>
noteVars == <<notification, notifTimers>>
\* the useState values: a step that changes one of them causes a render
reactState ==
  <<selectedFile, description, selectedGender, isLoading, loadingProgress,
    errorMessage, result, notification, isModalOpen, isImageViewerOpen>>

NoResult == [imageUrl |-> 0, message |-> ""]
NoFormData == [file |-> NoFile, prompt |-> <<>>]

RemoveAt(s, i) == SubSeq(s, 1, i - 1) \o SubSeq(s, i + 1, Len(s))

\* the state after construction, but for the pending processImage invocations
Mounted ==
  /\ selectedFile = NoFile
  /\ description = <<>>
  /\ selectedGender = NoGender
  /\ isLoading = FALSE
  /\ loadingProgress = 0
  /\ errorMessage = ""
  /\ result = NoResult
  /\ notification = NoNotification
  /\ isModalOpen = FALSE
  /\ isImageViewerOpen = FALSE
  /\ notifTimers = 0
  /\ subs = <<>>
  /\ progressTimers = 0
  /\ busyTimers = 0
  /\ netCount = 0
  /\ urlsCreated = 0
  /\ liveResultUrls = {}
  /\ sketchUrls = 0
  /\ bodyOverflow = ""
  /\ consoleError = ""

Init ==
  /\ Mounted
  /\ loads = <<>>
  /\ decodeUrls = 0

\* -------------------------------------------------------------------- render
\* The object URLs one render creates for the sketch: one for the preview of
\* the upload area while a file is selected, and one for the Modal's
\* sketchUrl while a file is selected and a result is held.
SketchUrlsInRender(f, res) ==
  (IF f # NoFile THEN 1 ELSE 0) + (IF f # NoFile /\ res # NoResult THEN 1 ELSE 0)

\* the un-revoked object URLs of the sketch after a render: no code revokes them
SketchUrlsAfterRender(n, f, res) ==
  IF n + SketchUrlsInRender(f, res) < MaxSketchUrls
    THEN n + SketchUrlsInRender(f, res)
    ELSE MaxSketchUrls

\* the body of the effect of Modal and of ImageViewer: if (isOpen) the body's
\* overflow is set to 'hidden'
EffectSetup(isOpen, overflow) == IF isOpen THEN "hidden" ELSE overflow

\* faulty variant: the ImageViewer has no effect on the body's overflow
OverflowOnlyModal(res, modalOpen, viewerOpen) ==
  EffectSetup(res # NoResult /\ modalOpen, "")

\* The body's overflow after the effects of a render.  Both effects depend on
\* [isOpen, onClose] and onClose is a new function in every render, so both
\* run again after each render: first the cleanups (overflow = ''), then the
\* bodies, the Modal's (mounted while a result is held) before the
\* ImageViewer's (always mounted).
OverflowAfterRender(res, modalOpen, viewerOpen) ==
  EffectSetup(viewerOpen, EffectSetup(res # NoResult /\ modalOpen, ""))

\* The render a step causes: when it has changed a useState value, or has
\* passed a newly created object to a setter (newObject; React compares
\* with Object.is, so an object of equal content is a change too).
Render(newObject) ==
  LET rendered == newObject \/ reactState' # reactState
  IN /\ sketchUrls' = IF rendered
                         THEN SketchUrlsAfterRender(sketchUrls, selectedFile', result')
                         ELSE sketchUrls
     /\ bodyOverflow' = IF rendered
                           THEN OverflowAfterRender(result', isModalOpen',
                                                    isImageViewerOpen')
                           ELSE bodyOverflow

\* ------------------------------------------------------- notification effect
\* The effect on [notification]: its cleanup clears the timeout of the
\* notification being replaced, and a timeout is started for a new one.
\* faulty variant: the effect has no cleanup, the replaced notification's
\* timeout stays pending
TimersNotCleared(c, n) == c + (IF n = NoNotification THEN 0 ELSE 1)

\* faulty variant: the effect starts no timeout
TimersNeverStarted(c, n) == 0

\* the pending timeouts after setNotification(n), c being pending before
TimersAfterSet(c, n) ==
  (IF c > 0 THEN c - 1 ELSE 0) + (IF n = NoNotification THEN 0 ELSE 1)

\* setNotification(n), followed by the render and the effect
Notify(n) ==
  /\ notification' = n
  /\ notifTimers' = TimersAfterSet(notifTimers, n)

\* the 5 s timeout fires: setNotification(null)
NotificationTimeout ==
  /\ notifTimers > 0
  /\ notification' = NoNotification
  /\ notifTimers' = notifTimers - 1
  /\ UNCHANGED <<inputVars, overlayVars, loadVars, submitVars, netVars,
                 resultVars, errorMessage>>
  /\ consoleError' = ""
  /\ Render(FALSE)

\* ---------------------------------------------------------- image selection
\* processImage(file) up to img.src = objectUrl
ProcessImage(file) ==
  /\ Len(loads) < MaxLoads
  /\ loads' = Append(loads, [file |-> file, stage |-> "decoding", w |-> 0, h |-> 0])
  /\ decodeUrls' = decodeUrls + 1

\* the body of handleFileSelect and handleDrop for the first file of the list
AcceptFile(file, rejectMessage) ==
  IF ValidImageType(file.type)
    THEN ProcessImage(file) /\ UNCHANGED noteVars
    ELSE Notify(Note("error", rejectMessage)) /\ UNCHANGED loadVars

handleFileSelect ==
  \E file \in UserFiles :
    /\ AcceptFile(file, MsgSelectInvalid)
    /\ UNCHANGED <<inputVars, overlayVars, submitVars, netVars, resultVars,
                   errorMessage>>
    /\ consoleError' = ""
    /\ Render(~ValidImageType(file.type))

handleDrop ==
  \E file \in UserFiles :
    /\ AcceptFile(file, MsgDropInvalid)
    /\ UNCHANGED <<inputVars, overlayVars, submitVars, netVars, resultVars,
                   errorMessage>>
    /\ consoleError' = ""
    /\ Render(~ValidImageType(file.type))

\* img.onload: the decode succeeded
ImgOnLoad ==
  \E i \in 1..Len(loads), ctx \in BOOLEAN :
    LET l == loads[i]
        size == CanvasSize(l.file.w, l.file.h)
    IN /\ l.stage = "decoding"
       /\ decodeUrls' = decodeUrls - 1
       /\ IF ctx
            THEN /\ loads' = [loads EXCEPT ![i] =
                               [file |-> l.file, stage |-> "encoding",
                                w |-> size.w, h |-> size.h]]
                 /\ UNCHANGED selectedFile
            ELSE /\ loads' = RemoveAt(loads, i)
                 /\ selectedFile' = l.file
       /\ UNCHANGED <<description, selectedGender, overlayVars, submitVars,
                      netVars, resultVars, noteVars, errorMessage>>
       /\ consoleError' = ""
       /\ Render(~ctx)

\* faulty variant: onerror leaves the decode URL un-revoked
DecodeUrlLeaked(n) == n

\* URL.revokeObjectURL(objectUrl) in img.onerror
DecodeUrlsAfterError(n) == n - 1

\* img.onerror: the decode failed
ImgOnError ==
  \E i \in 1..Len(loads) :
    /\ loads[i].stage = "decoding"
    /\ decodeUrls' = DecodeUrlsAfterError(decodeUrls)
    /\ loads' = RemoveAt(loads, i)
    /\ Notify(Note("error", MsgLoadError))
    /\ UNCHANGED <<inputVars, overlayVars, submitVars, netVars, resultVars,
                   errorMessage>>
    /\ consoleError' = ""
    /\ Render(TRUE)

\* the callback of canvas.toBlob; the encoder yields no blob for an empty
\* canvas, and may yield none for a type it cannot encode
ToBlobCallback ==
  \E i \in 1..Len(loads), blob \in BOOLEAN :
    LET l == loads[i]
    IN /\ l.stage = "encoding"
       /\ blob => (l.w > 0 /\ l.h > 0)
       /\ loads' = RemoveAt(loads, i)
       /\ IF blob
            THEN /\ selectedFile' = File(l.file.name, l.file.type, l.w, l.h, TRUE)
                 /\ Notify(Note("success", MsgOptimized))
            ELSE UNCHANGED <<selectedFile, noteVars>>
       /\ UNCHANGED <<description, selectedGender, overlayVars, decodeUrls,
                      submitVars, netVars, resultVars, errorMessage>>
       /\ consoleError' = ""
       /\ Render(blob)

\* the "Remove image" button, rendered while a file is selected
RemoveImage ==
  /\ selectedFile # NoFile
  /\ selectedFile' = NoFile
  /\ UNCHANGED <<description, selectedGender, overlayVars, loadVars,
                 submitVars, netVars, resultVars, noteVars, errorMessage>>
  /\ consoleError' = ""
  /\ Render(FALSE)

\* the textarea's onChange
SetDescription ==
  \E d \in Descriptions :
    /\ description' = d
    /\ UNCHANGED <<selectedFile, selectedGender, overlayVars, loadVars,
                   submitVars, netVars, resultVars, noteVars, errorMessage>>
    /\ consoleError' = ""
    /\ Render(FALSE)

\* the radio buttons' onChange
SetSelectedGender ==
  \E g \in Genders :
    /\ selectedGender' = g
    /\ UNCHANGED <<selectedFile, description, overlayVars, loadVars,
                   submitVars, netVars, resultVars, noteVars, errorMessage>>
    /\ consoleError' = ""
    /\ Render(FALSE)

\* ------------------------------------------------------ submission controller
\* faulty variant: the submit button is never disabled
SubmitNeverDisabled == FALSE

\* the submit button's disabled={isLoading}
SubmitDisabled == isLoading

\* faulty variant: the validation without the gender check
ValidationMessageNoGender(f, d, g) ==
  IF f = NoFile THEN MsgNoSketch
  ELSE IF Len(Trim(d)) = 0 THEN MsgNoDescription
  ELSE ""

\* faulty variant: the gender is checked before the description
ValidationMessageGenderFirst(f, d, g) ==
  IF f = NoFile THEN MsgNoSketch
  ELSE IF g = NoGender THEN MsgNoGender
  ELSE IF Len(Trim(d)) = 0 THEN MsgNoDescription
  ELSE ""

\* handleSubmit's validation: the message of the first failing check, "" if
\* the image, the description and the gender are all present
ValidationMessage(f, d, g) ==
  IF f = NoFile THEN MsgNoSketch
  ELSE IF Len(Trim(d)) = 0 THEN MsgNoDescription
  ELSE IF g = NoGender THEN MsgNoGender
  ELSE ""

\* the multipart form handleSubmit posts
FormData(f, d, g) == [file |-> f, prompt |-> CombinedPrompt(d, g)]

\* the values Math.random() * 3 takes, on the integer grid of the model
RandomIncrements == 0..(RANDOM_SCALE - 1)

\* faulty variant: the updater adds the increment whatever the previous value
ProgressAfterTickNoCeiling(prev, r) == prev + r

\* the updater the progress timer passes to setLoadingProgress
ProgressAfterTick(prev, r) == IF prev < PROGRESS_CEILING THEN prev + r ELSE prev

\* faulty variant: the body's message is preferred to its detail
ErrorDetailMessageFirst(resp, body) ==
  IF body.json
    THEN IF body.message # "" THEN body.message
         ELSE IF body.detail # "" THEN body.detail
         ELSE "Failed to process the sketch"
    ELSE "Server error: " \o ToString(resp.status) \o " " \o resp.statusText

\* the message of the Error thrown for a non-2xx response with this body
ErrorDetail(resp, body) ==
  IF body.json
    THEN IF body.detail # "" THEN body.detail
         ELSE IF body.message # "" THEN body.message
         ELSE "Failed to process the sketch"
    ELSE "Server error: " \o ToString(resp.status) \o " " \o resp.statusText

\* faulty variant: the catch block does not clear the interval
ProgressTimersLeak(n) == n

\* clearInterval(progressInterval) on the success path / in the catch block
ProgressTimersAfterSuccess(n) == n - 1
ProgressTimersAfterCatch(n) == n - 1

\* faulty variant: the success path leaves the progress where the ticks took it
ProgressKept(prev) == prev

\* setLoadingProgress(100) on the success path
ProgressOnSuccess(prev) == 100

\* faulty variant: the catch block shows the caught error's message
FailureNotificationRaw(err) == Note("error", err)

\* the notification the catch block sets for the caught error
FailureNotification(err) == Note("error", MsgFailed)

\* faulty variant: the outcome paths lower the busy flag at once
BusyLoweredAtOutcome(busy) == FALSE

\* the busy flag as the outcome paths leave it: it is lowered later, by the
\* 500 ms timeout they start
BusyAfterOutcome(busy) == busy

\* URL.revokeObjectURL(result.imageUrl) if the result holds a blob URL: in
\* the cleanup of the effect on [result] and in both "Create New Image"
\* handlers
RevokeResultUrl(live, res) == live \ {res.imageUrl}

\* faulty variant: the effect on [result] has no cleanup
ResultUrlsNoCleanup(live, res, new) == live \cup {new}

\* the un-revoked result URLs after the success path: createObjectURL for the
\* response blob, then setResult and the cleanup of the effect on [result]
\* for the result it replaces
ResultUrlsAfterSuccess(live, res, new) == RevokeResultUrl(live, res) \cup {new}

\* faulty variant: "Create New Image" clears the result without any revoke
ResultUrlsKeptOnReset(live, res) == live

\* the un-revoked result URLs after "Create New Image": the handler's revoke,
\* then setResult(null) and the effect's cleanup, which revokes the same URL
ResultUrlsAfterReset(live, res) == RevokeResultUrl(RevokeResultUrl(live, res), res)

\* the click handler of the submit button, up to the await of fetch
handleSubmit ==
  /\ ~SubmitDisabled
  /\ errorMessage' = ""
  /\ LET msg == ValidationMessage(selectedFile, description, selectedGender)
     IN IF msg # ""
          THEN /\ Notify(Note("error", msg))
               /\ UNCHANGED <<submitVars, netCount>>
          ELSE /\ netCount < MaxRequests
               /\ Notify(NoNotification)
               /\ isLoading' = TRUE
               /\ loadingProgress' = 0
               /\ progressTimers' = progressTimers + 1
               /\ netCount' = netCount + 1
               /\ subs' = Append(subs,
                    [pc |-> "fetch", resp |-> NoResponse,
                     request |-> FormData(selectedFile, description, selectedGender)])
               /\ UNCHANGED busyTimers
  /\ consoleError' = ""
  /\ UNCHANGED <<inputVars, overlayVars, loadVars, resultVars>>
  /\ Render(ValidationMessage(selectedFile, description, selectedGender) # "")

\* one 200 ms tick of a live progress timer
ProgressTick ==
  \E r \in RandomIncrements :
    /\ progressTimers > 0
    /\ loadingProgress' = ProgressAfterTick(loadingProgress, r)
    /\ UNCHANGED <<inputVars, overlayVars, loadVars, isLoading, subs,
                   progressTimers, busyTimers, netVars, resultVars, noteVars,
                   errorMessage>>
    /\ consoleError' = ""
    /\ Render(FALSE)

\* faulty variant: the catch block also clears the selected image
CatchClearingImage(i, err) ==
  /\ consoleError' = err
  /\ progressTimers' = ProgressTimersAfterCatch(progressTimers)
  /\ Notify(FailureNotification(err))
  /\ isLoading' = BusyAfterOutcome(isLoading)
  /\ busyTimers' = busyTimers + 1
  /\ subs' = RemoveAt(subs, i)
  /\ selectedFile' = NoFile
  /\ UNCHANGED <<description, selectedGender, overlayVars, loadVars,
                 loadingProgress, netCount, resultVars, errorMessage>>
  /\ Render(TRUE)

\* the catch block of submission i, entered with the error message err
Catch(i, err) ==
  /\ consoleError' = err
  /\ progressTimers' = ProgressTimersAfterCatch(progressTimers)
  /\ Notify(FailureNotification(err))
  /\ isLoading' = BusyAfterOutcome(isLoading)
  /\ busyTimers' = busyTimers + 1
  /\ subs' = RemoveAt(subs, i)
  /\ UNCHANGED <<inputVars, overlayVars, loadVars, loadingProgress, netCount,
                 resultVars, errorMessage>>
  /\ Render(TRUE)

\* fetch rejects: network failure
FetchReject ==
  \E i \in 1..Len(subs) :
    /\ subs[i].pc = "fetch"
    /\ Catch(i, NetworkErrorText)

\* fetch resolves with a response (the request is answered); the handler goes
\* on to read its body
FetchResolve ==
  \E i \in 1..Len(subs), resp \in {Ok200} \cup ErrorResponses :
    /\ subs[i].pc = "fetch"
    /\ subs' = [subs EXCEPT ![i] =
                 [pc |-> IF resp.ok THEN "blob" ELSE "json", resp |-> resp,
                  request |-> NoFormData]]
    /\ UNCHANGED <<inputVars, overlayVars, loadVars, isLoading, loadingProgress,
                   progressTimers, busyTimers, netVars, resultVars, noteVars,
                   errorMessage>>
    /\ consoleError' = ""
    /\ Render(FALSE)

\* response.json() of a non-2xx response settles (with the parsed body, or
\* rejecting a body that is not JSON); the handler throws
JsonSettle ==
  \E i \in 1..Len(subs), body \in ErrorBodies :
    /\ subs[i].pc = "json"
    /\ Catch(i, ErrorDetail(subs[i].resp, body))

\* response.blob() of a 2xx response rejects
BlobReject ==
  \E i \in 1..Len(subs) :
    /\ subs[i].pc = "blob"
    /\ Catch(i, BodyErrorText)

\* response.blob() of a 2xx response resolves: the success path, with the
\* cleanup of the effect on [result] revoking the superseded result's URL
BlobResolve ==
  \E i \in 1..Len(subs) :
    LET imageUrl == urlsCreated + 1
    IN /\ subs[i].pc = "blob"
       /\ urlsCreated' = imageUrl
       /\ progressTimers' = ProgressTimersAfterSuccess(progressTimers)
       /\ loadingProgress' = ProgressOnSuccess(loadingProgress)
       /\ result' = [imageUrl |-> imageUrl, message |-> MsgResult]
       /\ liveResultUrls' = ResultUrlsAfterSuccess(liveResultUrls, result, imageUrl)
       /\ Notify(Note("success", MsgGenerated))
       /\ isModalOpen' = TRUE
       /\ isLoading' = BusyAfterOutcome(isLoading)
       /\ busyTimers' = busyTimers + 1
       /\ subs' = RemoveAt(subs, i)
       /\ UNCHANGED <<inputVars, isImageViewerOpen, loadVars, netVars,
                      errorMessage>>
       /\ consoleError' = ""
       /\ Render(TRUE)

\* a 500 ms timeout fires: setIsLoading(false)
BusyTimeout ==
  /\ busyTimers > 0
  /\ busyTimers' = busyTimers - 1
  /\ isLoading' = FALSE
  /\ UNCHANGED <<inputVars, overlayVars, loadVars, loadingProgress, subs,
                 progressTimers, netVars, resultVars, noteVars, errorMessage>>
  /\ consoleError' = ""
  /\ Render(FALSE)

\* ------------------------------------------------------------------ overlays
\* the Modal's onClose (close button, backdrop click, ESC)
CloseModal ==
  /\ result # NoResult
  /\ isModalOpen
  /\ isModalOpen' = FALSE
  /\ UNCHANGED <<inputVars, isImageViewerOpen, loadVars, submitVars, netVars,
                 resultVars, noteVars, errorMessage>>
  /\ consoleError' = ""
  /\ Render(FALSE)

\* faulty variant: "Create New Image" inside the Modal without
\* setIsModalOpen(false)
ModalCreateNewLeftOpen ==
  /\ result # NoResult
  /\ isModalOpen
  /\ liveResultUrls' = ResultUrlsAfterReset(liveResultUrls, result)
  /\ result' = NoResult
  /\ selectedFile' = NoFile
  /\ description' = <<>>
  /\ selectedGender' = NoGender
  /\ UNCHANGED <<overlayVars, loadVars, submitVars, netVars, urlsCreated,
                 noteVars, errorMessage>>
  /\ consoleError' = ""
  /\ Render(FALSE)

\* "Create New Image" inside the Modal
ModalCreateNew ==
  /\ result # NoResult
  /\ isModalOpen
  /\ liveResultUrls' = ResultUrlsAfterReset(liveResultUrls, result)
  /\ isModalOpen' = FALSE
  /\ result' = NoResult
  /\ selectedFile' = NoFile
  /\ description' = <<>>
  /\ selectedGender' = NoGender
  /\ UNCHANGED <<isImageViewerOpen, loadVars, submitVars, netVars, urlsCreated,
                 noteVars, errorMessage>>
  /\ consoleError' = ""
  /\ Render(FALSE)

\* "Create New Image" in the result panel, rendered while the Modal is closed
PanelCreateNew ==
  /\ result # NoResult
  /\ ~isModalOpen
  /\ liveResultUrls' = ResultUrlsAfterReset(liveResultUrls, result)
  /\ result' = NoResult
  /\ selectedFile' = NoFile
  /\ description' = <<>>
  /\ selectedGender' = NoGender
  /\ UNCHANGED <<overlayVars, loadVars, submitVars, netVars, urlsCreated,
                 noteVars, errorMessage>>
  /\ consoleError' = ""
  /\ Render(FALSE)

\* a click on the image of the result panel
OpenImageViewer ==
  /\ result # NoResult
  /\ ~isModalOpen
  /\ isImageViewerOpen' = TRUE
  /\ UNCHANGED <<inputVars, isModalOpen, loadVars, submitVars, netVars,
                 resultVars, noteVars, errorMessage>>
  /\ consoleError' = ""
  /\ Render(FALSE)

\* the ImageViewer's onClose (close button, backdrop click, ESC)
CloseImageViewer ==
  /\ isImageViewerOpen
  /\ isImageViewerOpen' = FALSE
  /\ UNCHANGED <<inputVars, isModalOpen, loadVars, submitVars, netVars,
                 resultVars, noteVars, errorMessage>>
  /\ consoleError' = ""
  /\ Render(FALSE)

\* ------------------------------------------------------------ specification
Next ==
  \/ handleFileSelect
  \/ handleDrop
  \/ ImgOnLoad
  \/ ImgOnError
  \/ ToBlobCallback
  \/ RemoveImage
  \/ SetDescription
  \/ SetSelectedGender
  \/ handleSubmit
  \/ (loadingProgress < MaxTickProgress /\ ProgressTick)
  \/ FetchReject
  \/ FetchResolve
  \/ JsonSettle
  \/ BlobReject
  \/ BlobResolve
  \/ BusyTimeout
  \/ NotificationTimeout
  \/ CloseModal
  \/ ModalCreateNew
  \/ PanelCreateNew
  \/ OpenImageViewer
  \/ CloseImageViewer

Spec == Init /\ [][Next]_vars

\* With the timeouts the browser's event loop runs: a pending 500 ms timeout
\* fires.
FairSpec == Spec /\ WF_vars(BusyTimeout)

\* ------------------------------------------------- the preprocessor's inputs
\* The image sizes the preprocessor is run on: the smallest sizes, the sizes
\* around the cap and around twice the cap, and a grid up to MaxDim.
SampledDim(d) ==
  \/ d <= 4
  \/ (d >= MAX_WIDTH - 4 /\ d <= MAX_WIDTH + 4)
  \/ (d >= 2 * MAX_WIDTH - 4 /\ d <= 2 * MAX_WIDTH + 4)
  \/ d % 97 = 0
  \/ d % 400 = 0
  \/ d = MaxDim
Dims == {d \in 1..MaxDim : SampledDim(d)}

\* processImage has been called on a valid image file of any sampled size
InitResize ==
  /\ Mounted
  /\ \E w \in Dims, h \in Dims :
       loads = <<[file |-> File("sketch.png", "image/png", w, h, FALSE),
                  stage |-> "decoding", w |-> 0, h |-> 0]>>
  /\ decodeUrls = 1

NextResize ==
  \/ ImgOnLoad
  \/ ImgOnError
  \/ ToBlobCallback

SpecResize == InitResize /\ [][NextResize]_vars

\* ------------------------------------------------ the submission on its own
\* The three inputs have been entered (the sketch selected and re-encoded, the
\* description typed, the gender chosen); nothing has been submitted yet.
InitProgress ==
  /\ selectedFile = File("a.jpg", "image/jpeg", 800, 600, TRUE)
  /\ description = ASmilingMan
  /\ selectedGender = Male
  /\ isLoading = FALSE
  /\ loadingProgress = 0
  /\ errorMessage = ""
  /\ result = NoResult
  /\ notification = NoNotification
  /\ isModalOpen = FALSE
  /\ isImageViewerOpen = FALSE
  /\ notifTimers = 0
  /\ loads = <<>>
  /\ decodeUrls = 0
  /\ subs = <<>>
  /\ progressTimers = 0
  /\ busyTimers = 0
  /\ netCount = 0
  /\ urlsCreated = 0
  /\ liveResultUrls = {}
  /\ sketchUrls = MaxSketchUrls
  /\ bodyOverflow = ""
  /\ consoleError = ""

\* the steps of submissions: the click, the ticks of the progress timer (as
\* many as the timer gives), the outcomes and the timeouts
NextProgress ==
  \/ handleSubmit
  \/ ProgressTick
  \/ FetchReject
  \/ FetchResolve
  \/ JsonSettle
  \/ BlobReject
  \/ BlobResolve
  \/ BusyTimeout
  \/ NotificationTimeout

SpecProgress == InitProgress /\ [][NextProgress]_vars

\* ------------------------------------------------ the sources of notifications
\* The steps that call setNotification, with the steps that enable them: the
\* selection of a file and its processing, the submission and its outcomes,
\* and the timeouts.
NextNotification ==
  \/ handleFileSelect
  \/ handleDrop
  \/ ImgOnLoad
  \/ ImgOnError
  \/ ToBlobCallback
  \/ RemoveImage
  \/ handleSubmit
  \/ FetchReject
  \/ FetchResolve
  \/ JsonSettle
  \/ BlobReject
  \/ BlobResolve
  \/ BusyTimeout
  \/ NotificationTimeout

SpecNotification == InitProgress /\ [][NextNotification]_vars

\* A pending 5 s timeout of the notification effect fires.
FairSpecNotification == SpecNotification /\ WF_vars(NotificationTimeout)

\* ------------------------------------------------- two selections in a row
\* The user has selected a.jpg and then b.png (with or without an image
\* selected before); both processImage invocations wait for their decode.
InitRace ==
  /\ Mounted
  /\ loads = <<[file |-> SketchA, stage |-> "decoding", w |-> 0, h |-> 0],
               [file |-> SketchB, stage |-> "decoding", w |-> 0, h |-> 0]>>
  /\ decodeUrls = 2

\* the callbacks of the two invocations, in any order, and what the user and
\* the timers do meanwhile
NextRace ==
  \/ ImgOnLoad
  \/ ImgOnError
  \/ ToBlobCallback
  \/ RemoveImage
  \/ SetDescription
  \/ NotificationTimeout

SpecRace == InitRace /\ [][NextRace]_vars

\* =================================================================== claims
\* what the claims call a missing input
Blank(d) == \A k \in 1..Len(d) : IsWhiteSpace(d[k])
MissingMessages ==
  (IF selectedFile = NoFile THEN {MsgNoSketch} ELSE {})
    \cup (IF Blank(description) THEN {MsgNoDescription} ELSE {})
    \cup (IF selectedGender = NoGender THEN {MsgNoGender} ELSE {})
Max(a, b) == IF a >= b THEN a ELSE b
Abs(a) == IF a >= 0 THEN a ELSE -a

\* C1: a handleSubmit with the image absent, the description empty (blank) or
\* no gender selected issues no request, leaves the busy flag lowered, starts
\* no progress timer, and sets an error notification whose message is the
\* one of a missing field.
C1_InvalidSubmitRejected ==
  [][(handleSubmit /\ MissingMessages # {}) =>
       /\ netCount' = netCount
       /\ subs' = subs
       /\ ~isLoading'
       /\ progressTimers' = progressTimers
       /\ notification'.type = "error"
       /\ notification'.message \in MissingMessages]_vars

\* C1 witness: a submit with only the gender missing has been rejected.
C1_Witness ==
  /\ notification = Note("error", MsgNoGender)
  /\ selectedFile # NoFile
  /\ ~Blank(description)
  /\ selectedGender = NoGender
  /\ netCount = 0
  /\ ~isLoading

\* C2: at most one submission is in flight, and the submit control is
\* disabled (the busy flag raised) for as long as a request is unanswered or
\* the 500 ms timeout of its outcome is pending; no second progress timer
\* is started meanwhile.
C2_OneSubmissionInFlight ==
  /\ Len(subs) + busyTimers <= 1
  /\ progressTimers <= 1
  /\ (Len(subs) + busyTimers > 0) => isLoading

\* C2 witness: a second submission is in flight, the first one being over.
C2_Witness ==
  /\ netCount = 2
  /\ Len(subs) = 1
  /\ isLoading
  /\ busyTimers = 0

\* C3: a progress timer is live exactly while a submission awaits its
\* outcome: never more than one, and none once the outcome (2xx, non-2xx,
\* network failure, unreadable body) is there.
C3_ProgressTimerCleared ==
  /\ progressTimers <= 1
  /\ progressTimers = Len(subs)

\* C3 witness: the body of a 2xx response could not be read, and no progress
\* timer is left.
C3_Witness ==
  /\ consoleError = BodyErrorText
  /\ subs = <<>>
  /\ progressTimers = 0
  /\ busyTimers = 1

\* C4: a handleSubmit that passes validation issues exactly one request, with
\* file = the selected image and prompt = description, " (", gender, ")";
\* no other step issues a request (no retry).
C4_OneRequestPerSubmit ==
  [][/\ (handleSubmit /\ MissingMessages = {}) =>
          /\ netCount' = netCount + 1
          /\ Len(subs') = Len(subs) + 1
          /\ subs'[Len(subs')].pc = "fetch"
          /\ subs'[Len(subs')].request.file = selectedFile
          /\ subs'[Len(subs')].request.prompt =
               description \o <<" ", "(">> \o selectedGender \o <<")">>
          /\ (description = ASmilingMan /\ selectedGender = Male) =>
               subs'[Len(subs')].request.prompt =
                 <<"a", " ", "s", "m", "i", "l", "i", "n", "g", " ", "m", "a", "n",
                   " ", "(", "m", "a", "l", "e", ")">>
     /\ (netCount' # netCount) =>
          (handleSubmit /\ MissingMessages = {} /\ netCount' = netCount + 1)]_vars

\* C4 witness: the request for "a smiling man" and male is in flight.
C4_Witness ==
  /\ Len(subs) = 1
  /\ subs[1].request.prompt =
       <<"a", " ", "s", "m", "i", "l", "i", "n", "g", " ", "m", "a", "n",
         " ", "(", "m", "a", "l", "e", ")">>
  /\ subs[1].request.file = File("a.jpg", "image/jpeg", 800, 600, TRUE)
  /\ netCount = 1

\* the processImage invocations whose canvas size has been computed
Sized == {i \in 1..Len(loads) : loads[i].stage = "encoding"}
Oversized(f) == f.w > MAX_WIDTH \/ f.h > MAX_HEIGHT

\* C5: for an image wider or taller than 800, both computed dimensions are
\* at most 800.
C5_OutputWithinCap ==
  \A i \in Sized :
    Oversized(loads[i].file) => (loads[i].w <= 800 /\ loads[i].h <= 800)

\* C5 witness: 1600 x 1200 has been sized to 800 x 600.
C5_Witness ==
  \E i \in Sized :
    /\ loads[i].file.w = 1600 /\ loads[i].file.h = 1200
    /\ loads[i].w = 800 /\ loads[i].h = 600

\* C6: for an image wider or taller than 800, each computed dimension is
\* less than one pixel away from the input dimension times
\* s = min(800/width, 800/height) = 800/max(width, height).
C6_AspectRatioPreserved ==
  \A i \in Sized :
    LET f == loads[i].file
        m == Max(f.w, f.h)
    IN Oversized(f) =>
         /\ Abs(loads[i].w * m - 800 * f.w) < m
         /\ Abs(loads[i].h * m - 800 * f.h) < m

\* C6 witness: a size for which the width step and then the height step
\* both resize (1200 x 1600 -> 800 x 1067 -> 600 x 800).
C6_Witness ==
  \E i \in Sized :
    /\ loads[i].file.w = 1200 /\ loads[i].file.h = 1600
    /\ WidthStep([w |-> 1200, h |-> 1600]).h > MAX_HEIGHT
    /\ loads[i].w = 600 /\ loads[i].h = 800

\* C7: for an image of width <= 800 and height <= 800 the computed
\* dimensions are the input dimensions.
C7_SmallImageUnchanged ==
  \A i \in Sized :
    (loads[i].file.w <= 800 /\ loads[i].file.h <= 800) =>
      (loads[i].w = loads[i].file.w /\ loads[i].h = loads[i].file.h)

\* C7 witness: a 400 x 800 image has been sized to 400 x 800.
C7_Witness ==
  \E i \in Sized :
    /\ loads[i].file.w = 400 /\ loads[i].file.h = 800
    /\ loads[i].w = 400 /\ loads[i].h = 800

\* C8: when the body of a 2xx response has been read, progress is 100, the
\* result holds an object URL created in this step (never handed out before,
\* not revoked) and the message 'Face successfully generated!', the
\* notification is a success, and the modal is open.
C8_SuccessState ==
  [][BlobResolve =>
       /\ loadingProgress' = 100
       /\ result'.message = "Face successfully generated!"
       /\ result'.imageUrl > urlsCreated
       /\ result'.imageUrl <= urlsCreated'
       /\ result'.imageUrl \in liveResultUrls'
       /\ notification'.type = "success"
       /\ isModalOpen']_vars

\* C8 witness: the state right after a success that followed some ticks.
C8_Witness ==
  /\ loadingProgress = 100
  /\ result = [imageUrl |-> 1, message |-> MsgResult]
  /\ liveResultUrls = {1}
  /\ notification = Note("success", MsgGenerated)
  /\ isModalOpen
  /\ isLoading
  /\ busyTimers = 1

\* the texts that come from the server or the network stack
ServerTexts ==
  {ErrorDetail(r, b) : r \in ErrorResponses, b \in ErrorBodies}
    \cup {NetworkErrorText, BodyErrorText}
\* the texts the view shows
Displayed == {notification.message, errorMessage, result.message}

\* C9: every failed submission ends with the notification (error, 'Failed to
\* process the sketch. Please try again.'), whatever the server's body,
\* status or the exception text, and no displayed state holds a server text.
C9_GenericFailureMessage ==
  /\ [](Displayed \cap ServerTexts = {})
  /\ [][(FetchReject \/ JsonSettle \/ BlobReject) =>
          /\ notification' =
               Note("error", "Failed to process the sketch. Please try again.")
          /\ errorMessage' = errorMessage
          /\ result' = result]_vars

\* C9 witness: the server's detail has been logged, and the fixed message is
\* shown.
C9_Witness ==
  /\ consoleError = DetailText
  /\ notification = Note("error", MsgFailed)
  /\ errorMessage = ""

\* C10: the busy flag is lowered only by a 500 ms timeout, and only once no
\* submission awaits its outcome; after an outcome it is eventually lowered
\* (the submit control is enabled again).
C10_BusyLoweredAfterDelay ==
  /\ [][(isLoading /\ ~isLoading') =>
          (subs = <<>> /\ busyTimers > 0 /\ busyTimers' = busyTimers - 1)]_vars
  /\ [][(Len(subs') < Len(subs)) => (isLoading' /\ busyTimers' > 0)]_vars
  /\ ((isLoading /\ subs = <<>>) ~> ~isLoading)

\* C10 witness: a submission has ended and the timeout has lowered the flag.
C10_Witness ==
  /\ netCount = 1
  /\ subs = <<>>
  /\ busyTimers = 0
  /\ ~isLoading
  /\ notification = Note("error", MsgFailed)

\* C11: the progress value becomes 100 only in the step that has read the
\* body of a 2xx response; a tick of the progress timer never leaves it at
\* 100, and while a submission awaits its outcome it is not 100.
C11_CompletionOnlyOnSuccess ==
  /\ [][ProgressTick => loadingProgress' # 100]_vars
  /\ [][(loadingProgress # 100 /\ loadingProgress' = 100) => BlobResolve]_vars
  /\ [](subs # <<>> => loadingProgress # 100)

\* C11 witness: after a success (progress 100) a second submission is in
\* flight, and the ticks alone have taken its progress as far as they can.
C11_Witness ==
  /\ netCount = 2
  /\ result # NoResult
  /\ Len(subs) = 1
  /\ progressTimers = 1
  /\ loadingProgress >= PROGRESS_CEILING
  /\ loadingProgress # 100

\* C12: while a submission awaits its response, the progress value is at
\* most 85.
C12_ProgressAtMostCeiling ==
  \A i \in 1..Len(subs) : subs[i].pc = "fetch" => loadingProgress <= 85

\* C13: every un-revoked result URL is the one the result state holds: when
\* a result is replaced by a newer one, or cleared by either "Create New
\* Image", the URL of the previous result has been revoked.
C13_ResultUrlReferenced ==
  \A u \in liveResultUrls : result # NoResult /\ u = result.imageUrl

\* C13 witness: a second result has replaced the first, and only the
\* second result's URL is un-revoked.
C13_Witness ==
  /\ urlsCreated = 2
  /\ result.imageUrl = 2
  /\ liveResultUrls = {2}

C15_SketchUrlRevoked ==
  [][(selectedFile # NoFile /\ selectedFile' # selectedFile) =>
       sketchUrls' <= SketchUrlsInRender(selectedFile', result')]_vars

\* C16: in every state there is exactly one un-revoked object URL for the
\* selected sketch, if there is one, and exactly one for the result, if there
\* is one, and none otherwise.
C16_OneHandlePerArtifact ==
  /\ sketchUrls = (IF selectedFile = NoFile THEN 0 ELSE 1)
  /\ Cardinality(liveResultUrls) = (IF result = NoResult THEN 0 ELSE 1)

\* C17: a set notification always has its 5 s timeout pending (one, never
\* more), the timeout clears the notification when it fires, and so a set
\* notification is eventually cleared, unless it keeps being replaced.
C17_NotificationExpires ==
  /\ [](notification # NoNotification <=> notifTimers = 1)
  /\ [](notifTimers <= 1)
  /\ [][NotificationTimeout => notification' = NoNotification]_vars
  /\ (notification # NoNotification ~> notification = NoNotification)

\* C17 witness: the notification of a failed submission has been cleared by
\* its timeout (nothing else clears it before a second submission).
C17_Witness ==
  /\ netCount = 1
  /\ subs = <<>>
  /\ urlsCreated = 0
  /\ notification = NoNotification
  /\ notifTimers = 0

\* the MIME types the upload accepts, as the claims list them
AcceptedTypes == {"image/jpg", "image/jpeg", "image/png", "image/gif"}

\* C18: selecting or dropping a file whose MIME type is not image/jpg,
\* image/jpeg, image/png or image/gif sets an error notification (the
\* handler's own message), starts no processImage, creates no decode URL and
\* leaves the selected image as it was.
C18_InvalidTypeRejected ==
  [][\A file \in UserFiles :
       (/\ file.type \notin AcceptedTypes
        /\ \/ AcceptFile(file, MsgSelectInvalid) /\ handleFileSelect
           \/ AcceptFile(file, MsgDropInvalid) /\ handleDrop)
       => /\ notification'.type = "error"
          /\ notification'.message \in {MsgSelectInvalid, MsgDropInvalid}
          /\ loads' = loads
          /\ decodeUrls' = decodeUrls
          /\ selectedFile' = selectedFile]_vars

\* C18 witness: a file of another type has been dropped while an image is
\* selected; the image is still selected and nothing is being processed.
C18_Witness ==
  /\ notification = Note("error", MsgDropInvalid)
  /\ selectedFile = File("a.jpg", "image/jpeg", 800, 600, TRUE)
  /\ loads = <<>>
  /\ decodeUrls = 0

\* C19: when the decode of the chosen file fails, the notification is
\* (error, 'Error loading image. Please try another file.'), the decode URL
\* of that processImage is revoked and the invocation is over, the selected
\* image and the submission state are as before; every decode URL left
\* belongs to a decode still pending, and with no processImage pending a new
\* selection can start one.
C19_DecodeFailureRecovered ==
  /\ [][ImgOnError =>
          /\ notification' =
               Note("error", "Error loading image. Please try another file.")
          /\ decodeUrls' = decodeUrls - 1
          /\ Len(loads') = Len(loads) - 1
          /\ selectedFile' = selectedFile
          /\ isLoading' = isLoading
          /\ subs' = subs]_vars
  /\ [](decodeUrls = Cardinality({i \in 1..Len(loads) : loads[i].stage = "decoding"}))
  /\ [](loads = <<>> => ENABLED (handleFileSelect /\ Len(loads') = 1))

\* C19 witness: a second selection failed to decode; the image selected
\* before is still selected and no decode URL is left.
C19_Witness ==
  /\ notification = Note("error", MsgLoadError)
  /\ selectedFile = File("a.jpg", "image/jpeg", 800, 600, TRUE)
  /\ loads = <<>>
  /\ decodeUrls = 0
  /\ ~isLoading

\* C20: a processImage whose file has decoded ends (in img.onload without a
\* 2D context, or in the callback of toBlob) with a selected image set:
\* the re-encoded file, of the original's name and MIME type, or the
\* original file.
C20_DecodedFileSelected ==
  [][\A i \in 1..Len(loads) :
       ((ImgOnLoad \/ ToBlobCallback) /\ loads' = RemoveAt(loads, i)) =>
         \/ selectedFile' = loads[i].file
         \/ /\ selectedFile'.reencoded
            /\ selectedFile'.name = loads[i].file.name
            /\ selectedFile'.type = loads[i].file.type]_vars

\* the status line of a response, as the claims write it
StatusLine(resp) == "Server error: " \o ToString(resp.status) \o " " \o resp.statusText

\* the step that logs the error of submission i, whose non-2xx response has
\* this body
LogsErrorOf(i, body) ==
  /\ subs[i].pc = "json"
  /\ Catch(i, ErrorDetail(subs[i].resp, body))
  /\ JsonSettle

C22_ScrollLocked ==
  /\ []((isModalOpen \/ isImageViewerOpen) => bodyOverflow = "hidden")
  /\ [](~(isModalOpen \/ isImageViewerOpen) => bodyOverflow = "")
  /\ [][(isModalOpen /\ isImageViewerOpen /\ (CloseModal \/ CloseImageViewer)) =>
          bodyOverflow' = "hidden"]_vars

\* C22 witness: the viewer was open when a second result opened the modal;
\* both are open and the scroll is locked.
C22_Witness ==
  /\ isModalOpen
  /\ isImageViewerOpen
  /\ result.imageUrl = 2
  /\ bodyOverflow = "hidden"

\* a submission awaits its outcome although the gender is unset: the inputs
\* were valid when it was submitted and only "Create New Image" unsets the
\* gender, so the app was reset while the submission was in flight
ResetInFlight == subs # <<>> /\ selectedGender = NoGender

\* C23: a reset or the closing of the modal leaves a submission in flight as
\* it is, and the outcome of a submission that arrives after a reset sets no
\* result, does not open the modal and leaves the notification alone.
C23_LateResponseDiscarded ==
  /\ [][(ModalCreateNew \/ PanelCreateNew \/ CloseModal) => subs' = subs]_vars
  /\ [][(ResetInFlight /\ (BlobResolve \/ FetchReject \/ JsonSettle \/ BlobReject)) =>
          /\ result' = result
          /\ isModalOpen' = isModalOpen
          /\ notification' = notification]_vars

\* C24: for a decoded image of width >= 1 and height >= 1, both computed
\* dimensions are at least 1.
C24_OutputAtLeastOne ==
  \A i \in Sized :
    (loads[i].file.w >= 1 /\ loads[i].file.h >= 1) =>
      (loads[i].w >= 1 /\ loads[i].h >= 1)

\* C25: with a.jpg selected and then b.png before a.jpg's callbacks have
\* run, the selected image ends as the one derived from b.png whatever the
\* order of the callbacks: once the image derived from b.png is selected, no
\* callback of a.jpg's processImage replaces it.
C25_LastSelectionWins ==
  [][(selectedFile.name = "b.png" /\ (ImgOnLoad \/ ToBlobCallback)) =>
       selectedFile'.name = "b.png"]_vars

\* the steps of a submission after the click, and the failures among them
SubmissionStep ==
  \/ ProgressTick
  \/ FetchResolve
  \/ FetchReject
  \/ JsonSettle
  \/ BlobReject
  \/ BusyTimeout
FailureStep == FetchReject \/ JsonSettle \/ BlobReject

\* C26: the steps of a failed submission leave the result and its URL, the
\* modal and viewer flags, the selected image, the description and the
\* gender as they are, and a failure changes the notification and clears the
\* progress timer; the success step and the click leave the inputs as they
\* are.
C26_FailureFrame ==
  /\ [][\/ /\ result' = result
             /\ liveResultUrls' = liveResultUrls
             /\ urlsCreated' = urlsCreated
             /\ isModalOpen' = isModalOpen
             /\ isImageViewerOpen' = isImageViewerOpen
             /\ selectedFile' = selectedFile
             /\ description' = description
             /\ selectedGender' = selectedGender
          \/ ~SubmissionStep]_vars
  /\ [][(Len(subs') # Len(subs) /\ FailureStep) =>
          /\ notification'.type = "error"
          /\ progressTimers' = progressTimers - 1
          /\ isLoading' = isLoading]_vars
  /\ [][\/ /\ selectedFile' = selectedFile
             /\ description' = description
             /\ selectedGender' = selectedGender
          \/ ~(BlobResolve \/ handleSubmit)]_vars

\* C26 witness: a second submission has failed while the first result is
\* held with the viewer open; result, viewer and inputs are still there.
C26_Witness ==
  /\ netCount = 2
  /\ subs = <<>>
  /\ notification = Note("error", MsgFailed)
  /\ result.imageUrl = 1
  /\ liveResultUrls = {1}
  /\ isImageViewerOpen
  /\ selectedFile # NoFile
  /\ selectedGender # NoGender

\* C27: if the modal's open flag is raised a result is held: the flag is
\* raised only by the step that sets a result, and a step that clears the
\* result leaves the flag lowered.
C27_ModalImpliesResult ==
  /\ [](isModalOpen => result # NoResult)
  /\ [][(~isModalOpen /\ isModalOpen') => (BlobResolve /\ result' # NoResult)]_vars
  /\ [][(result # NoResult /\ result' = NoResult) => ~isModalOpen']_vars

\* C27 witness: the modal's "Create New Image" has cleared the first result
\* and closed the modal.
C27_Witness ==
  /\ urlsCreated = 1
  /\ result = NoResult
  /\ liveResultUrls = {}
  /\ ~isModalOpen
  /\ ~isImageViewerOpen
  /\ selectedFile = NoFile
  /\ selectedGender = NoGender

\* C28: if the viewer's open flag is raised, a result with an image URL is
\* held.
C28_ViewerImpliesResult ==
  isImageViewerOpen => (result # NoResult /\ result.imageUrl \in liveResultUrls)

FirstMissingMessage ==
  IF selectedFile = NoFile THEN "Please upload a sketch first"
  ELSE IF Blank(description) THEN "Please provide a description"
  ELSE "Please select a gender"

\* C30: a handleSubmit with one or several inputs missing sets exactly one
\* notification, the error of the first missing input in the order image,
\* description (a blank one counts as missing), gender, with the timeout of
\* the notification shown before cleared; a handleSubmit with nothing
\* missing leaves no notification.
C30_ValidationPriority ==
  [][(~isLoading /\ handleSubmit) =>
       IF MissingMessages # {}
         THEN /\ notification' = Note("error", FirstMissingMessage)
              /\ notifTimers' = 1
         ELSE /\ notification' = NoNotification
              /\ notifTimers' = 0]_vars

\* C30 witness: with an image selected, a blank description and no gender,
\* the submit has reported the description.
C30_Witness ==
  /\ selectedFile # NoFile
  /\ description = <<" ">>
  /\ selectedGender = NoGender
  /\ notification = Note("error", MsgNoDescription)
  /\ notifTimers = 1
  /\ ~isLoading

====
